---- MODULE Spec2Model ----
(***************************************************************************)
(* Model of the swap request-to-transaction translator:                    *)
(*   - the chain/token registry (helpers: getChainIdForNetwork,            *)
(*     getTokenAddressForChain, getTokenDecimalsForChain, getTokenAmount), *)
(*   - the request validator (validateSwapRequest),                        *)
(*   - SwapService.buildSwapTransaction and SwapService.getSwapQuote.      *)
(* JavaScript strings that the code inspects (case conversion, trimming,   *)
(* regular expressions, number parsing) are sequences of one-character     *)
(* strings; Str turns such a sequence into the text of a message.          *)
(***************************************************************************)
EXTENDS Integers, Sequences, FiniteSets, TLC

\* ------------------------------------------------------------------------
\* JavaScript string primitives
\* ------------------------------------------------------------------------

LowerLetters == <<"a","b","c","d","e","f","g","h","i","j","k","l","m","n","o","p","q","r","s","t","u","v","w","x","y","z">>

UpperLetters == <<"A","B","C","D","E","F","G","H","I","J","K","L","M","N","O","P","Q","R","S","T","U","V","W","X","Y","Z">>

Digits == <<"0","1","2","3","4","5","6","7","8","9">>

SeqToSet(s) == {s[i] : i \in 1..Len(s)}

IndexOf(c, s) == CHOOSE i \in 1..Len(s) : s[i] = c

UpperOf == [c \in SeqToSet(LowerLetters) |-> UpperLetters[IndexOf(c, LowerLetters)]]

LowerOf == [c \in SeqToSet(UpperLetters) |-> LowerLetters[IndexOf(c, UpperLetters)]]

\* String.prototype.toUpperCase, one character
UpperChar(c) == IF c \in DOMAIN UpperOf THEN UpperOf[c] ELSE c

\* String.prototype.toLowerCase, one character
LowerChar(c) == IF c \in DOMAIN LowerOf THEN LowerOf[c] ELSE c

toUpperCase(s) == [i \in 1..Len(s) |-> UpperChar(s[i])]

toLowerCase(s) == [i \in 1..Len(s) |-> LowerChar(s[i])]

IsSpace(c) == c \in {" ", "\t", "\n"}

RECURSIVE TrimStart(_)
TrimStart(s) == IF s # <<>> /\ IsSpace(s[1]) THEN TrimStart(Tail(s)) ELSE s

RECURSIVE TrimEnd(_)
TrimEnd(s) == IF s # <<>> /\ IsSpace(s[Len(s)]) THEN TrimEnd(SubSeq(s, 1, Len(s) - 1)) ELSE s

\* String.prototype.trim
trim(s) == TrimEnd(TrimStart(s))

\* the text of a character sequence, as it appears inside a template literal
RECURSIVE Str(_)
Str(s) == IF s = <<>> THEN "" ELSE s[1] \o Str(Tail(s))

\* Array.prototype.join(', ') over message texts
RECURSIVE Join(_)
Join(msgs) ==
    IF msgs = <<>> THEN ""
    ELSE IF Len(msgs) = 1 THEN msgs[1]
    ELSE msgs[1] \o ", " \o Join(Tail(msgs))

DigitSet == SeqToSet(Digits)

DigitValue == [c \in DigitSet |-> IndexOf(c, Digits) - 1]

AllDigits(s) == \A i \in 1..Len(s) : s[i] \in DigitSet

DigitVal(c) == DigitValue[c]

\* null / undefined
Null == [null |-> TRUE]

\* ------------------------------------------------------------------------
\* Static tables
\* ------------------------------------------------------------------------

\* SUPPORTED_CHAINS: upper-case chain name -> chain id
SUPPORTED_CHAINS ==
    ( <<"E","T","H","E","R","E","U","M">> :> 1 ) @@
    ( <<"A","R","B","I","T","R","U","M">> :> 42161 ) @@
    ( <<"O","P","T","I","M","I","S","M">> :> 10 ) @@
    ( <<"B","A","S","E">> :> 8453 ) @@
    ( <<"P","O","L","Y","G","O","N">> :> 137 ) @@
    ( <<"A","V","A","L","A","N","C","H","E">> :> 43114 ) @@
    ( <<"S","E","P","O","L","I","A">> :> 11155111 ) @@
    ( <<"A","R","B","I","T","R","U","M","_","S","E","P","O","L","I","A">> :> 421614 ) @@
    ( <<"B","A","S","E","_","S","E","P","O","L","I","A">> :> 84532 ) @@
    ( <<"O","P","T","I","M","I","S","M","_","S","E","P","O","L","I","A">> :> 11155420 )

\* CHAIN_NAME_MAPPING: upper-case chain name -> the directory's name
CHAIN_NAME_MAPPING ==
    ( <<"E","T","H","E","R","E","U","M">> :> <<"e","t","h","e","r","e","u","m">> ) @@
    ( <<"A","R","B","I","T","R","U","M">> :> <<"a","r","b","i","t","r","u","m">> ) @@
    ( <<"O","P","T","I","M","I","S","M">> :> <<"o","p","t","i","m","i","s","m">> ) @@
    ( <<"B","A","S","E">> :> <<"b","a","s","e">> ) @@
    ( <<"P","O","L","Y","G","O","N">> :> <<"p","o","l","y","g","o","n">> ) @@
    ( <<"A","V","A","L","A","N","C","H","E">> :> <<"a","v","a","l","a","n","c","h","e">> ) @@
    ( <<"S","E","P","O","L","I","A">> :> <<"s","e","p","o","l","i","a">> ) @@
    ( <<"A","R","B","I","T","R","U","M","_","S","E","P","O","L","I","A">> :> <<"a","r","b","i","t","r","u","m","-","s","e","p","o","l","i","a">> ) @@
    ( <<"B","A","S","E","_","S","E","P","O","L","I","A">> :> <<"b","a","s","e","-","s","e","p","o","l","i","a">> ) @@
    ( <<"O","P","T","I","M","I","S","M","_","S","E","P","O","L","I","A">> :> <<"o","p","t","i","m","i","s","m","-","s","e","p","o","l","i","a">> )

\* FALLBACK_TOKEN_ADDRESSES: directory chain name -> symbol -> address
FALLBACK_TOKEN_ADDRESSES ==
    ( <<"e","t","h","e","r","e","u","m">> :> (
        ( <<"U","S","D","C">> :> <<"0","x","A","0","b","8","6","a","3","3","E","6","4","4","1","0","3","1","a","A","d","3","f","2","b","E","D","f","4","9","E","C","5","B","c","2","f","4","2","E","4","5">> ) @@
        ( <<"D","A","I">> :> <<"0","x","6","B","1","7","5","4","7","4","E","8","9","0","9","4","C","4","4","D","a","9","8","b","9","5","4","E","e","d","e","A","C","4","9","5","2","7","1","d","0","F">> ) @@
        ( <<"U","S","D","T">> :> <<"0","x","d","A","C","1","7","F","9","5","8","D","2","e","e","5","2","3","a","2","2","0","6","2","0","6","9","9","4","5","9","7","C","1","3","D","8","3","1","e","c","7">> ) @@
        ( <<"E","T","H">> :> <<"0","x","e","e","e","e","e","e","e","e","e","e","e","e","e","e","e","e","e","e","e","e","e","e","e","e","e","e","e","e","e","e","e","e","e","e","e","e","e","e","e","e">> ) @@
        ( <<"S","R","C">> :> <<"0","x","S","R","C","_","T","O","K","E","N","_","A","D","D","R","E","S","S">> ) @@
        ( <<"D","E","S","T">> :> <<"0","x","D","E","S","T","_","T","O","K","E","N","_","A","D","D","R","E","S","S">> ) ) ) @@
    ( <<"a","r","b","i","t","r","u","m","-","s","e","p","o","l","i","a">> :> (
        ( <<"U","S","D","C">> :> <<"0","x","7","5","f","a","f","1","1","4","e","a","f","b","1","B","D","b","e","2","F","0","3","1","6","D","F","8","9","3","f","d","5","8","C","E","4","6","A","A","4","d">> ) @@
        ( <<"U","S","D","T">> :> <<"0","x","8","b","6","a","2","D","4","D","b","7","3","b","A","8","A","9","f","F","D","9","b","7","D","3","8","A","0","D","4","D","6","A","3","e","0","f","c","A","A","D">> ) ) ) @@
    ( <<"o","p","t","i","m","i","s","m","-","s","e","p","o","l","i","a">> :> (
        ( <<"U","S","D","C">> :> <<"0","x","5","f","d","8","4","2","5","9","d","6","6","C","d","4","6","1","2","3","5","4","0","7","6","6","B","e","9","3","D","F","E","6","D","4","3","1","3","0","D","7">> ) @@
        ( <<"U","S","D","T">> :> <<"0","x","8","2","a","9","d","4","A","8","C","e","4","B","8","C","0","b","d","8","A","2","C","6","0","E","8","a","8","b","6","c","D","9","e","4","D","9","9","e","5","F">> ) ) ) @@
    ( <<"b","a","s","e","-","s","e","p","o","l","i","a">> :> (
        ( <<"U","S","D","C">> :> <<"0","x","0","3","6","C","b","D","5","3","8","4","2","c","5","4","2","6","6","3","4","e","7","9","2","9","5","4","1","e","C","2","3","1","8","f","3","d","C","F","7","e">> ) ) ) @@
    ( <<"s","e","p","o","l","i","a">> :> (
        ( <<"U","S","D","C">> :> <<"0","x","1","c","7","D","4","B","1","9","6","C","b","0","C","7","B","0","1","d","7","4","3","F","b","c","6","1","1","6","a","9","0","2","3","7","9","C","7","2","3","8">> ) @@
        ( <<"U","S","D","T">> :> <<"0","x","a","A","8","E","2","3","F","b","1","0","7","9","E","A","7","1","e","0","a","5","6","F","4","8","a","2","a","A","5","1","8","5","1","D","8","4","3","3","D","0">> ) ) )

\* FALLBACK_TOKEN_DECIMALS: directory chain name -> symbol -> decimals
FALLBACK_TOKEN_DECIMALS ==
    ( <<"e","t","h","e","r","e","u","m">> :> (
        ( <<"U","S","D","C">> :> 6 ) @@ ( <<"D","A","I">> :> 18 ) @@ ( <<"U","S","D","T">> :> 6 ) @@
        ( <<"E","T","H">> :> 18 ) @@ ( <<"S","R","C">> :> 18 ) @@ ( <<"D","E","S","T">> :> 18 ) ) ) @@
    ( <<"a","r","b","i","t","r","u","m","-","s","e","p","o","l","i","a">> :> ( ( <<"U","S","D","C">> :> 6 ) @@ ( <<"U","S","D","T">> :> 6 ) ) ) @@
    ( <<"o","p","t","i","m","i","s","m","-","s","e","p","o","l","i","a">> :> ( ( <<"U","S","D","C">> :> 6 ) @@ ( <<"U","S","D","T">> :> 6 ) ) ) @@
    ( <<"b","a","s","e","-","s","e","p","o","l","i","a">> :> ( <<"U","S","D","C">> :> 6 ) ) @@
    ( <<"s","e","p","o","l","i","a">> :> ( ( <<"U","S","D","C">> :> 6 ) @@ ( <<"U","S","D","T">> :> 6 ) ) )

\* the two native-asset sentinels of buildSwapTransaction
NATIVE_E == <<"0","x","e","e","e","e","e","e","e","e","e","e","e","e","e","e","e","e","e","e","e","e","e","e","e","e","e","e","e","e","e","e","e","e","e","e","e","e","e","e","e","e">>

NATIVE_ZERO == <<"0","x","0","0","0","0","0","0","0","0","0","0","0","0","0","0","0","0","0","0","0","0","0","0","0","0","0","0","0","0","0","0","0","0","0","0","0","0","0","0","0","0">>

\* ------------------------------------------------------------------------
\* Errors
\* ------------------------------------------------------------------------

\* new Error(message)
Error(msg) == [message |-> msg]

\* isAxiosError(error)
isAxiosError(e) == "isAxiosError" \in DOMAIN e /\ e.isAxiosError

\* ------------------------------------------------------------------------
\* The external chain/token directory (@chrom-ar/utils)
\*   chains   : directory chain name -> [num |-> id] or [str |-> digits]
\*              (a name outside the domain raises)
\*   tokens   : <<chain, SYMBOL>> -> [addr |-> address]  (else null; an
\*              unknown chain raises)
\*   decimals : <<chain, SYMBOL>> -> [dec |-> n]         (likewise)
\* ------------------------------------------------------------------------

\* a directory that knows nothing: every lookup raises
DirectoryEmpty ==
    [ chains   |-> << >>,
      tokens   |-> << >>,
      decimals |-> << >> ]

\* a directory that knows the main networks, one network the local table
\* does not list, native assets under both sentinel spellings, one token
\* it answers with the empty string, and one token (DAI on ethereum) whose
\* decimals it gives differently from the local table
DirectoryMain ==
    [ chains |->
        ( <<"e","t","h","e","r","e","u","m">> :> [num |-> 1] ) @@
        ( <<"a","r","b","i","t","r","u","m">> :> [num |-> 42161] ) @@
        ( <<"b","a","s","e">> :> [str |-> <<"8","4","5","3">>] ) @@
        ( <<"b","s","c">> :> [num |-> 56] ),
      tokens |->
        ( <<<<"e","t","h","e","r","e","u","m">>, <<"U","S","D","C">>>> :> [addr |-> <<"0","x","A","0","b","8","6","9","9","1","c","6","2","1","8","b","3","6","c","1","d","1","9","D","4","a","2","e","9","E","b","0","c","E","3","6","0","6","e","B","4","8">>] ) @@
        ( <<<<"e","t","h","e","r","e","u","m">>, <<"D","A","I">>>> :> [addr |-> <<"0","x","6","B","1","7","5","4","7","4","E","8","9","0","9","4","C","4","4","D","a","9","8","b","9","5","4","E","e","d","e","A","C","4","9","5","2","7","1","d","0","F">>] ) @@
        ( <<<<"e","t","h","e","r","e","u","m">>, <<"W","E","T","H">>>> :> [addr |-> <<"0","x","e","e","e","e","e","e","e","e","e","e","e","e","e","e","e","e","e","e","e","e","e","e","e","e","e","e","e","e","e","e","e","e","e","e","e","e","e","e","e","f">>] ) @@
        ( <<<<"e","t","h","e","r","e","u","m">>, <<"E","T","H">>>> :> [addr |-> << >>] ) @@
        ( <<<<"b","a","s","e">>, <<"E","T","H">>>> :> [addr |-> <<"0","x","E","e","e","e","e","E","e","e","e","E","e","E","e","e","E","e","E","e","E","e","e","E","E","E","e","e","e","e","E","e","e","e","e","e","e","e","E","E","e","E">>] ) @@
        ( <<<<"b","a","s","e">>, <<"U","S","D","C">>>> :> [addr |-> <<"0","x","8","3","3","5","8","9","f","C","D","6","e","D","b","6","E","0","8","f","4","c","7","C","3","2","D","4","f","7","1","b","5","4","b","d","A","0","2","9","1","3">>] ) @@
        ( <<<<"a","r","b","i","t","r","u","m">>, <<"E","T","H">>>> :> [addr |-> <<"0","x","0","0","0","0","0","0","0","0","0","0","0","0","0","0","0","0","0","0","0","0","0","0","0","0","0","0","0","0","0","0","0","0","0","0","0","0","0","0","0","0">>] ) @@
        ( <<<<"a","r","b","i","t","r","u","m">>, <<"U","S","D","C">>>> :> [addr |-> <<"0","x","a","f","8","8","d","0","6","5","e","7","7","c","8","c","C","2","2","3","9","3","2","7","C","5","E","D","b","3","A","4","3","2","2","6","8","e","5","8","3","1">>] ) @@
        ( <<<<"b","s","c">>, <<"U","S","D","C">>>> :> [addr |-> <<"0","x","8","A","C","7","6","a","5","1","c","c","9","5","0","d","9","8","2","2","D","6","8","b","8","3","f","E","1","A","d","9","7","B","3","2","C","d","5","8","0","d">>] ),
      decimals |->
        ( <<<<"e","t","h","e","r","e","u","m">>, <<"U","S","D","C">>>> :> [dec |-> 6] ) @@
        ( <<<<"e","t","h","e","r","e","u","m">>, <<"D","A","I">>>> :> [dec |-> 9] ) @@
        ( <<<<"e","t","h","e","r","e","u","m">>, <<"W","E","T","H">>>> :> [dec |-> 18] ) @@
        ( <<<<"b","a","s","e">>, <<"E","T","H">>>> :> [dec |-> 18] ) @@
        ( <<<<"b","a","s","e">>, <<"U","S","D","C">>>> :> [dec |-> 6] ) @@
        ( <<<<"a","r","b","i","t","r","u","m">>, <<"E","T","H">>>> :> [dec |-> 18] ) @@
        ( <<<<"a","r","b","i","t","r","u","m">>, <<"U","S","D","C">>>> :> [dec |-> 6] ) @@
        ( <<<<"b","s","c">>, <<"U","S","D","C">>>> :> [dec |-> 18] ) ]

Directories == {DirectoryEmpty, DirectoryMain}

Raise == [raise |-> TRUE]

Raised(v) == "raise" \in DOMAIN v

IsNull(v) == "null" \in DOMAIN v

\* getChainIdFromUtils(name): a number, a numeric string, or raises
getChainIdFromUtils(dir, name) ==
    IF name \in DOMAIN dir.chains THEN dir.chains[name] ELSE Raise

\* getTokenAddressFromUtils(name, SYMBOL): an address, null, or raises
getTokenAddressFromUtils(dir, name, symbol) ==
    IF name \notin DOMAIN dir.chains THEN Raise
    ELSE IF <<name, symbol>> \in DOMAIN dir.tokens THEN dir.tokens[<<name, symbol>>]
    ELSE Null

\* getTokenDecimalsFromUtils(name, SYMBOL): a number, null, or raises
getTokenDecimalsFromUtils(dir, name, symbol) ==
    IF name \notin DOMAIN dir.chains THEN Raise
    ELSE IF <<name, symbol>> \in DOMAIN dir.decimals THEN dir.decimals[<<name, symbol>>]
    ELSE Null

\* ------------------------------------------------------------------------
\* Chain/token registry
\* ------------------------------------------------------------------------

\* parseInt(s, 10) of a string of decimal digits
RECURSIVE parseInt(_)
parseInt(s) == IF s = <<>> THEN 0 ELSE parseInt(SubSeq(s, 1, Len(s) - 1)) * 10 + DigitVal(s[Len(s)])

\* an unmapped name handed to the directory as written
MappedOrLower_AsWritten(upper, chainName) ==
    IF upper \in DOMAIN CHAIN_NAME_MAPPING THEN CHAIN_NAME_MAPPING[upper] ELSE chainName

\* CHAIN_NAME_MAPPING[upper] || chainName.toLowerCase()
MappedOrLower(upper, chainName) ==
    IF upper \in DOMAIN CHAIN_NAME_MAPPING THEN CHAIN_NAME_MAPPING[upper] ELSE toLowerCase(chainName)

\* the name the directory is asked for
normalizedChainName(chainName) == MappedOrLower(toUpperCase(chainName), chainName)

\* typeof chainId === 'string' ? parseInt(chainId, 10) : chainId
ChainIdNumber(chainId) == IF "str" \in DOMAIN chainId THEN parseInt(chainId.str) ELSE chainId.num

\* the catch block of getChainIdForNetwork: SUPPORTED_CHAINS[upper], or throw
ChainIdFallback(upper, chainName) ==
    IF upper \in DOMAIN SUPPORTED_CHAINS
    THEN [id |-> SUPPORTED_CHAINS[upper]]
    ELSE [error |-> Error("Unsupported chain: " \o Str(chainName))]

\* the try block, given what the directory answered
ChainIdTry(chainId, upper, chainName) ==
    IF ~Raised(chainId) THEN [id |-> ChainIdNumber(chainId)] ELSE ChainIdFallback(upper, chainName)

\* [id |-> n], or [error |-> Error] when the call throws
getChainIdForNetwork(dir, chainName) ==
    ChainIdTry(getChainIdFromUtils(dir, normalizedChainName(chainName)), toUpperCase(chainName), chainName)

\* try { v = lookup } catch { }: a raise leaves the variable null
CaughtAsNull(v) == IF Raised(v) THEN Null ELSE v

\* !tokenAddress
NoAddress(v) == IsNull(v) \/ v.addr = <<>>

\* the local table consulted first, the directory's answer only without an entry
AddressFromFallback_LocalFirst(tokenAddress, table, name, symbol) ==
    IF name \in DOMAIN table /\ symbol \in DOMAIN table[name]
    THEN [addr |-> table[name][symbol]]
    ELSE tokenAddress

\* if (!tokenAddress && TABLE[name]) tokenAddress = TABLE[name][SYMBOL]
AddressFromFallback(tokenAddress, table, name, symbol) ==
    IF NoAddress(tokenAddress) /\ name \in DOMAIN table
    THEN IF symbol \in DOMAIN table[name] THEN [addr |-> table[name][symbol]] ELSE Null
    ELSE tokenAddress

\* if (!tokenAddress) throw
AddressOrThrow(tokenAddress, chainName, tokenSymbol) ==
    IF NoAddress(tokenAddress)
    THEN [error |-> Error("Token " \o Str(tokenSymbol) \o " not found on chain " \o Str(chainName))]
    ELSE tokenAddress

\* the body of getTokenAddressForChain, for the normalized name and upper-case symbol
ResolveTokenAddress(dir, name, symbol, chainName, tokenSymbol) ==
    AddressOrThrow(
        AddressFromFallback(CaughtAsNull(getTokenAddressFromUtils(dir, name, symbol)),
                            FALLBACK_TOKEN_ADDRESSES, name, symbol),
        chainName, tokenSymbol)

\* [addr |-> address], or [error |-> Error] when the call throws
getTokenAddressForChain(dir, chainName, tokenSymbol) ==
    ResolveTokenAddress(dir, normalizedChainName(chainName), toUpperCase(tokenSymbol), chainName, tokenSymbol)

\* if ((decimals === null || decimals === undefined) && TABLE[name]) decimals = TABLE[name][SYMBOL]
DecimalsFromFallback(decimals, table, name, symbol) ==
    IF IsNull(decimals) /\ name \in DOMAIN table
    THEN IF symbol \in DOMAIN table[name] THEN [dec |-> table[name][symbol]] ELSE Null
    ELSE decimals

\* a default of 18 for every symbol
DecimalsOrDefault_Always18(decimals, symbol) == IF IsNull(decimals) THEN 18 ELSE decimals.dec

\* the default: USDC/USDT = 6 decimals, others = 18
DecimalsOrDefault(decimals, symbol) ==
    IF IsNull(decimals)
    THEN IF symbol \in {<<"U","S","D","C">>, <<"U","S","D","T">>} THEN 6 ELSE 18
    ELSE decimals.dec

\* the body of getTokenDecimalsForChain, for the normalized name and upper-case symbol
ResolveTokenDecimals(dir, name, symbol) ==
    DecimalsOrDefault(
        DecimalsFromFallback(CaughtAsNull(getTokenDecimalsFromUtils(dir, name, symbol)),
                             FALLBACK_TOKEN_DECIMALS, name, symbol),
        symbol)

\* never throws
getTokenDecimalsForChain(dir, chainName, tokenSymbol) ==
    ResolveTokenDecimals(dir, normalizedChainName(chainName), toUpperCase(tokenSymbol))

getTokenDecimals(dir, chainName, tokenSymbol) == getTokenDecimalsForChain(dir, chainName, tokenSymbol)

getChainId(dir, chainName) == getChainIdForNetwork(dir, chainName)

getTokenAddress(dir, chainName, tokenSymbol) == getTokenAddressForChain(dir, chainName, tokenSymbol)

\* ------------------------------------------------------------------------
\* Number(string): the sign class of the value of a JavaScript numeric
\* string ("nan", "neg", "zero", "pos")
\* ------------------------------------------------------------------------

\* first index of s holding a character of set, or 0
FirstIndex(s, set) ==
    IF \E i \in 1..Len(s) : s[i] \in set
    THEN CHOOSE i \in 1..Len(s) : s[i] \in set /\ \A j \in 1..(i - 1) : s[j] \notin set
    ELSE 0

\* the part of s before index i (all of s when i is 0)
Before(s, i) == IF i = 0 THEN s ELSE SubSeq(s, 1, i - 1)

\* the part of s after index i (default when i is 0)
After(s, i, default) == IF i = 0 THEN default ELSE SubSeq(s, i + 1, Len(s))

Count(s, c) == Cardinality({i \in 1..Len(s) : s[i] = c})

AllZero(s) == \A i \in 1..Len(s) : s[i] \in {"0", "."}

\* digits* [ "." digits* ] with at least one digit
IsMantissa(s) ==
    /\ \A i \in 1..Len(s) : s[i] \in DigitSet \cup {"."}
    /\ Count(s, ".") <= 1
    /\ \E i \in 1..Len(s) : s[i] \in DigitSet

\* [ "+" | "-" ] digits+
IsExponent(s) ==
    IF s # <<>> /\ s[1] \in {"+", "-"} THEN Len(s) > 1 /\ AllDigits(Tail(s)) ELSE s # <<>> /\ AllDigits(s)

MantissaOf(s) == Before(s, FirstIndex(s, {"e", "E"}))

MantissaAndExponent(s, e) ==
    /\ IsMantissa(Before(s, e))
    /\ e # 0 => IsExponent(SubSeq(s, e + 1, Len(s)))

\* StrUnsignedDecimalLiteral, other than Infinity
IsDecimalLiteral(s) == MantissaAndExponent(s, FirstIndex(s, {"e", "E"}))

HexDigits == DigitSet \cup {"a", "b", "c", "d", "e", "f", "A", "B", "C", "D", "E", "F"}

\* 0x / 0o / 0b literals (no sign allowed)
IsRadixLiteral(s) ==
    /\ Len(s) >= 3
    /\ s[1] = "0"
    /\ \/ s[2] \in {"x", "X"} /\ \A i \in 3..Len(s) : s[i] \in HexDigits
       \/ s[2] \in {"o", "O"} /\ \A i \in 3..Len(s) : s[i] \in {"0", "1", "2", "3", "4", "5", "6", "7"}
       \/ s[2] \in {"b", "B"} /\ \A i \in 3..Len(s) : s[i] \in {"0", "1"}

\* the class of an unsigned radix literal
RadixClass(t) == IF \A i \in 3..Len(t) : t[i] = "0" THEN "zero" ELSE "pos"

\* the class of sign + body, for a body that is not empty
SignedClass(t, signed, neg, body) ==
    IF body = <<"I","n","f","i","n","i","t","y">> THEN (IF neg THEN "neg" ELSE "pos")
    ELSE IF IsDecimalLiteral(body)
    THEN IF AllZero(MantissaOf(body)) THEN "zero" ELSE IF neg THEN "neg" ELSE "pos"
    ELSE IF ~signed /\ IsRadixLiteral(t) THEN RadixClass(t)
    ELSE "nan"

TrimmedClass(t) ==
    IF t = <<>> THEN "zero"
    ELSE SignedClass(t, t[1] \in {"+", "-"}, t[1] = "-", IF t[1] \in {"+", "-"} THEN Tail(t) ELSE t)

\* the sign class of Number(s); exponents are taken not to underflow
NumberClass(s) == TrimmedClass(trim(s))

\* ------------------------------------------------------------------------
\* viem parseUnits(value, decimals), on digit strings
\* ------------------------------------------------------------------------

RECURSIVE StripLeadingZeros(_)
StripLeadingZeros(s) == IF Len(s) > 1 /\ s[1] = "0" THEN StripLeadingZeros(Tail(s)) ELSE s

RECURSIVE StripTrailingZeros(_)
StripTrailingZeros(s) ==
    IF s # <<>> /\ s[Len(s)] = "0" THEN StripTrailingZeros(SubSeq(s, 1, Len(s) - 1)) ELSE s

\* the digit string of n + 1, for a digit string n of any length ("" is 0)
RECURSIVE Increment(_)
Increment(s) ==
    IF s = <<>> THEN <<"1">>
    ELSE IF s[Len(s)] = "9" THEN Increment(SubSeq(s, 1, Len(s) - 1)) \o <<"0">>
    ELSE SubSeq(s, 1, Len(s) - 1) \o <<Digits[DigitVal(s[Len(s)]) + 2]>>

Zeros(n) == [i \in 1..n |-> "0"]

padEnd(s, n) == IF Len(s) >= n THEN s ELSE s \o Zeros(n - Len(s))

padStart(s, n) == IF Len(s) >= n THEN s ELSE Zeros(n - Len(s)) \o s

\* BigInt(digits).toString()
BigIntToString(s) == IF s = <<>> THEN <<"0">> ELSE StripLeadingZeros(s)

\* /^(-?)([0-9]*)\.?([0-9]*)$/
MatchesUnitsPattern(value) ==
    /\ \A i \in 1..Len(value) : value[i] \in DigitSet \cup {"."} \/ (i = 1 /\ value[i] = "-")
    /\ Count(value, ".") <= 1

\* value.split('.') after the sign is taken off: the integer part
UnitsInteger(body) == Before(body, FirstIndex(body, {"."}))

\* the fraction part ('0' when there is no point), trailing zeros removed
UnitsFraction(body) == StripTrailingZeros(After(body, FirstIndex(body, {"."}), <<"0">>))

\* Math.round(Number(`${unit}.${right}`)) - unit, for right without trailing zeros
\* and short enough for Number to hold `${unit}.${right}` exactly
RoundUp(right) == IF right # <<>> /\ DigitVal(right[1]) >= 5 THEN 1 ELSE 0

\* left + the rounded unit digit, carrying into left when it passes 9
RoundedWith(left, rounded) ==
    IF rounded > 9
    THEN padStart(BigIntToString(Increment(left)) \o <<"0">>, Len(left) + 1)
    ELSE left \o <<Digits[rounded + 1]>>

\* the fraction rounded to decimals digits, before the carry is taken off
\* (fraction longer than decimals, decimals > 0)
RoundedFraction(fraction, decimals) ==
    RoundedWith(SubSeq(fraction, 1, decimals - 1),
                DigitVal(fraction[decimals]) + RoundUp(SubSeq(fraction, decimals + 1, Len(fraction))))

\* integer and fraction once the rounded fraction is known
CarriedDigits(integer, rounded, decimals) ==
    IF Len(rounded) > decimals
    THEN BigIntToString(Increment(integer)) \o SubSeq(Tail(rounded), 1, decimals)
    ELSE integer \o SubSeq(rounded, 1, decimals)

\* the digits as written, neither rounded nor padded to decimals places
UnitsDigits_Unpadded(integer, fraction, decimals) == integer \o fraction

\* `${integer}${fraction}` after rounding and padding
UnitsDigits(integer, fraction, decimals) ==
    IF decimals = 0
    THEN IF RoundUp(fraction) = 1 THEN BigIntToString(Increment(integer)) ELSE integer
    ELSE IF Len(fraction) > decimals
    THEN CarriedDigits(integer, RoundedFraction(fraction, decimals), decimals)
    ELSE integer \o padEnd(fraction, decimals)

\* the magnitude with its sign, -0 being 0
Signed(negative, magnitude) ==
    IF negative /\ magnitude # <<"0">> THEN <<"-">> \o magnitude ELSE magnitude

\* BigInt(`${negative ? '-' : ''}${digits}`), which throws on a bare "-"
SignedBigInt(negative, digits) ==
    IF negative /\ digits = <<>> THEN Raise
    ELSE [units |-> Signed(negative, BigIntToString(digits))]

ParseMatched(negative, body, decimals) ==
    SignedBigInt(negative, UnitsDigits(UnitsInteger(body), UnitsFraction(body), decimals))

\* [units |-> digit string], or [raise |-> TRUE]
parseUnits(value, decimals) ==
    IF ~MatchesUnitsPattern(value) THEN Raise
    ELSE IF value # <<>> /\ value[1] = "-" THEN ParseMatched(TRUE, Tail(value), decimals)
    ELSE ParseMatched(FALSE, value, decimals)

\* parsed.toString(), or the catch block's throw
AmountOrThrow(parsed, amount) ==
    IF Raised(parsed)
    THEN [error |-> Error("Failed to parse token amount: " \o Str(amount))]
    ELSE [amount |-> parsed.units]

\* [amount |-> base-unit digit string], or [error |-> Error] when the call throws
getTokenAmount(dir, amount, chainName, tokenSymbol) ==
    AmountOrThrow(parseUnits(amount, getTokenDecimalsForChain(dir, chainName, tokenSymbol)), amount)

\* ------------------------------------------------------------------------
\* Request validator
\* ------------------------------------------------------------------------

\* /^0x[a-fA-F0-9]{40}$/
isValidAddress(address) ==
    /\ Len(address) = 42
    /\ address[1] = "0"
    /\ address[2] = "x"
    /\ \A i \in 3..42 : address[i] \in HexDigits

Failed(r) == "error" \in DOMAIN r

\* a table lookup by the name as written
chainSupported_CaseSensitive(fromChain) == fromChain \in DOMAIN SUPPORTED_CHAINS

\* the validator's own notion of a supported chain
chainSupported(fromChain) == toUpperCase(fromChain) \in DOMAIN SUPPORTED_CHAINS

\* one check: its messages (none when it passes or is skipped)
amountErrors(params) ==
    IF params.amount = <<>> \/ NumberClass(params.amount) # "pos"
    THEN <<"Invalid amount: must be a positive number">> ELSE <<>>

fromTokenErrors(params) ==
    IF params.fromToken = <<>> \/ trim(params.fromToken) = <<>>
    THEN <<"From token is required">> ELSE <<>>

toTokenErrors(params) ==
    IF params.toToken = <<>> \/ trim(params.toToken) = <<>>
    THEN <<"To token is required">> ELSE <<>>

fromAddressErrors(params) ==
    IF params.fromAddress = <<>> \/ ~isValidAddress(params.fromAddress)
    THEN <<"Invalid from address format">> ELSE <<>>

fromChainErrors(params) ==
    IF params.fromChain = <<>> \/ ~chainSupported(params.fromChain)
    THEN <<"Unsupported chain: " \o Str(params.fromChain)>> ELSE <<>>

tokenSupportErrors(dir, params, token) ==
    IF params.fromChain # <<>> /\ token # <<>> /\ chainSupported(params.fromChain)
       /\ Failed(getTokenAddressForChain(dir, params.fromChain, token))
    THEN <<"Token " \o Str(token) \o " not supported on " \o Str(params.fromChain)>> ELSE <<>>

\* a validator that stops at its first failure
Validation_FirstOnly(errors) ==
    [isValid |-> Len(errors) = 0, errors |-> IF errors = <<>> THEN <<>> ELSE <<errors[1]>>]

\* { isValid: errors.length === 0, errors }
Validation(errors) == [isValid |-> Len(errors) = 0, errors |-> errors]

validateSwapRequest(dir, params) ==
    Validation(amountErrors(params) \o fromTokenErrors(params) \o toTokenErrors(params)
               \o fromAddressErrors(params) \o fromChainErrors(params)
               \o tokenSupportErrors(dir, params, params.fromToken)
               \o tokenSupportErrors(dir, params, params.toToken))

\* ------------------------------------------------------------------------
\* Inputs: the requests, and what the collaborators may answer
\* ------------------------------------------------------------------------

\* how many invocations one behaviour makes
MaxInvocations == 1

Amounts ==
    { <<"1">>, <<"0",".","1">>, <<"0">>, <<>>, <<"a","b","c">>, <<"1","e","3">>,
      <<"0",".","0","0","0","0","0","0","1">>, <<"0",".","9","9","9","9","9","9","5">>,
      <<"0","1",".","5","0">>, <<"-","1">> }

FromTokens == { <<"U","S","D","C">>, <<"u","s","d","c">>, <<"E","T","H">>, <<"W","E","T","H">>, <<"X","Y","Z">>, <<>>, <<" ">> }

ToTokens == { <<"D","A","I">>, <<"U","S","D","C">>, <<>> }

sampleFromAddress == <<"0","x","d","8","d","A","6","B","F","2","6","9","6","4","a","F","9","D","7","e","E","d","9","e","0","3","E","5","3","4","1","5","D","3","7","a","A","9","6","0","4","5">>

FromAddresses == { sampleFromAddress, <<"i","n","v","a","l","i","d","-","a","d","d","r","e","s","s">> }

FromChains == { <<"E","T","H","E","R","E","U","M">>, <<"e","t","h","e","r","e","u","m">>, <<"b","a","s","e">>, <<"A","R","B","I","T","R","U","M">>, <<"S","E","P","O","L","I","A">>, <<"b","s","c">>, <<"U","N","S","U","P","P","O","R","T","E","D","_","C","H","A","I","N">>, <<>> }

BareRequests ==
    [amount : Amounts, fromToken : FromTokens, toToken : ToTokens,
     fromAddress : FromAddresses, fromChain : FromChains]

\* slippage is in tenths of a percent (10 is 1%), when the request gives one
Requests == BareRequests \cup { r @@ [slippage |-> 10] : r \in {b \in BareRequests : b.amount = <<"1">>} }

samplePriceRoute == [srcAmount |-> "1000000000000000000", destAmount |-> "2000000000000000000"]

otherPriceRoute == [srcAmount |-> "1000000", destAmount |-> "999871"]

\* what getQuote may resolve to: nothing, a price route, a route without a
\* usable destAmount, or a response that carries its route under "market"
QuoteResults ==
    { Null,
      samplePriceRoute,
      otherPriceRoute,
      [srcAmount |-> "1000000"],
      [srcAmount |-> "1000000", destAmount |-> ""],
      [market |-> samplePriceRoute],
      [market |-> [srcAmount |-> "1000000"]],
      [market |-> Null] }

SpenderResults == { <<"0","x","1","F","9","8","4","3","1","c","8","a","D","9","8","5","2","3","6","3","1","A","E","4","a","5","9","f","2","6","7","3","4","6","e","a","3","1","F","9","8","4">>, <<"0","x","6","A","0","0","0","F","2","0","0","0","5","9","8","0","2","0","0","2","5","9","B","8","0","c","5","1","0","2","0","0","3","0","4","0","0","0","1","0","6","8">> }

sampleTxRequest ==
    [to |-> <<"0","x","1","F","9","8","4","3","1","c","8","a","D","9","8","5","2","3","6","3","1","A","E","4","a","5","9","f","2","6","7","3","4","6","e","a","3","1","F","9","8","4">>,
     data |-> [hex |-> "0x1234567890abcdef1234567890abcdef1234567890abcdef1234567890abcdef"],
     value |-> "0", gasPrice |-> <<"1","0","0","0","0","0","0","0","0","0","0">>, gas |-> <<"0","2","0","0","0","0","0">>]

\* what buildTx may resolve to
TxResults ==
    { Null,
      sampleTxRequest,
      [to |-> sampleTxRequest.to, data |-> [hex |-> "0xabcdef"]],
      [to |-> sampleTxRequest.to, data |-> [hex |-> "0xabcdef"], value |-> "100000000000000000"],
      [to |-> sampleTxRequest.to, data |-> [hex |-> "0xabcdef"], value |-> "0", gasPrice |-> <<"a","b","c">>],
      [data |-> [hex |-> "0xabcdef"], value |-> "0"],
      [to |-> <<>>, data |-> [hex |-> "0xabcdef"]],
      [to |-> sampleTxRequest.to, value |-> "0"],
      [to |-> sampleTxRequest.to, data |-> [hex |-> ""]] }

\* an axios error whose response carries the payload data
AxiosError(data) ==
    [isAxiosError |-> TRUE, message |-> "Request failed with status code 400", response |-> [data |-> data]]

\* what a collaborator call may reject with
CollaboratorErrors ==
    { Error("VeloraDEX API Error"),
      [isAxiosError |-> TRUE, message |-> "Network Error"],
      AxiosError(Null),
      AxiosError([message |-> "No routes found with enough liquidity"]),
      AxiosError([error |-> "Invalid tokens"]),
      AxiosError([message |-> "", error |-> "Rate limited"]),
      AxiosError([message |-> "Validation failed", error |-> "Bad Request"]),
      AxiosError([code |-> "500"]) }

\* ------------------------------------------------------------------------
\* SwapService
\* ------------------------------------------------------------------------

\* slippage = 0.5, in tenths of a percent
DefaultSlippage == 5

\* the SDK instance the constructor builds
simpleSDK == [chainId |-> 1, apiURL |-> "https://api.velora.xyz"]

VARIABLES
    directory,     \* the external directory's content
    invocations,   \* invocations started so far
    op,            \* "none", "buildSwapTransaction" or "getSwapQuote"
    pc,            \* "idle", "getQuote", "getSpender", "buildTx" (awaiting that call), "done"
    request,       \* the request of the current invocation
    locals,        \* the local constants of the current invocation
    transactions,  \* the transactions array of the current invocation
    calls,         \* the collaborator calls of the current invocation, in order
    result         \* what the invocation resolved or rejected with

vars == <<directory, invocations, op, pc, request, locals, transactions, calls, result>>

NoRequest == [amount |-> <<>>, fromToken |-> <<>>, toToken |-> <<>>, fromAddress |-> <<>>, fromChain |-> <<>>]

NoLocals ==
    [fromChainId |-> 0, fromTokenAddress |-> <<>>, toTokenAddress |-> <<>>, fromTokenAmount |-> <<>>,
     fromTokenDecimals |-> 0, toTokenDecimals |-> 0, slippage |-> 0, mode |-> "",
     priceRoute |-> Null, spender |-> <<>>]

Pending == [status |-> "pending"]

Init ==
    /\ directory \in Directories
    /\ invocations = 0
    /\ op = "none"
    /\ pc = "idle"
    /\ request = NoRequest
    /\ locals = NoLocals
    /\ transactions = <<>>
    /\ calls = <<>>
    /\ result = Pending

\* error.response.data?.message || error.response.data?.error || 'VeloraDEX API request failed'
Present(data, f) == ~IsNull(data) /\ f \in DOMAIN data /\ data[f] # ""

apiErrorMessage(data) ==
    IF Present(data, "message") THEN data.message
    ELSE IF Present(data, "error") THEN data.error
    ELSE "VeloraDEX API request failed"

\* a catch block that rethrows whatever it caught
Rethrown_Raw(error) == error

\* the catch block of both methods: what is rethrown for a caught error
Rethrown(error) ==
    IF isAxiosError(error) /\ "response" \in DOMAIN error
    THEN Error(apiErrorMessage(error.response.data))
    ELSE error

Rejected(error) == [status |-> "rejected", error |-> Rethrown(error)]

\* a throw that reports the first validator message only
InvalidRequest_FirstOnly(validation) == [error |-> Error("Invalid request: " \o validation.errors[1])]

\* if (!validation.isValid) throw new Error(`Invalid request: ${validation.errors.join(', ')}`)
InvalidRequest(validation) == [error |-> Error("Invalid request: " \o Join(validation.errors))]

\* const { slippage = 0.5 } = request
SlippageOf(req) == IF "slippage" \in DOMAIN req THEN req.slippage ELSE DefaultSlippage

\* const { mode = 'market' } = request
ModeOf(req) == IF "mode" \in DOMAIN req THEN req.mode ELSE "market"

\* the locals once every helper has returned
Locals(fromChainId, fromTokenAddress, toTokenAddress, fromTokenAmount, fromTokenDecimals, toTokenDecimals, slippage, mode) ==
    [fromChainId       |-> fromChainId.id,
     fromTokenAddress  |-> fromTokenAddress.addr,
     toTokenAddress    |-> toTokenAddress.addr,
     fromTokenAmount   |-> fromTokenAmount.amount,
     fromTokenDecimals |-> fromTokenDecimals,
     toTokenDecimals   |-> toTokenDecimals,
     slippage          |-> slippage,
     mode              |-> mode,
     priceRoute        |-> Null,
     spender           |-> <<>>]

\* the first of four helper results that threw, else [ok |-> locals]
FirstThrow(first, second, third, fourth, locs) ==
    IF Failed(first) THEN first
    ELSE IF Failed(second) THEN second
    ELSE IF Failed(third) THEN third
    ELSE IF Failed(fourth) THEN fourth
    ELSE [ok |-> locs]

\* the helpers of buildSwapTransaction in the order it calls them
BuildResolve(fromChainId, fromTokenAddress, toTokenAddress, fromTokenAmount, fromTokenDecimals, toTokenDecimals, req) ==
    FirstThrow(fromChainId, fromTokenAddress, toTokenAddress, fromTokenAmount,
               Locals(fromChainId, fromTokenAddress, toTokenAddress, fromTokenAmount,
                      fromTokenDecimals, toTokenDecimals, SlippageOf(req), ModeOf(req)))

\* the helpers of getSwapQuote in the order it calls them
QuoteResolve(fromChainId, fromTokenAmount, fromTokenAddress, toTokenAddress, fromTokenDecimals, toTokenDecimals, req) ==
    FirstThrow(fromChainId, fromTokenAmount, fromTokenAddress, toTokenAddress,
               Locals(fromChainId, fromTokenAddress, toTokenAddress, fromTokenAmount,
                      fromTokenDecimals, toTokenDecimals, 0, ModeOf(req)))

\* validation, then resolution
Validated(validation, resolved) == IF ~validation.isValid THEN InvalidRequest(validation) ELSE resolved

\* buildSwapTransaction up to its first await:
\* [ok |-> the locals], or [error |-> Error] for the first throw
BuildPrologue(dir, req) ==
    Validated(validateSwapRequest(dir, req),
              BuildResolve(getChainId(dir, req.fromChain),
                           getTokenAddress(dir, req.fromChain, req.fromToken),
                           getTokenAddress(dir, req.fromChain, req.toToken),
                           getTokenAmount(dir, req.amount, req.fromChain, req.fromToken),
                           getTokenDecimals(dir, req.fromChain, req.fromToken),
                           getTokenDecimals(dir, req.fromChain, req.toToken),
                           req))

\* getSwapQuote up to its await
QuotePrologue(dir, req) ==
    Validated(validateSwapRequest(dir, req),
              QuoteResolve(getChainId(dir, req.fromChain),
                           getTokenAmount(dir, req.amount, req.fromChain, req.fromToken),
                           getTokenAddress(dir, req.fromChain, req.fromToken),
                           getTokenAddress(dir, req.fromChain, req.toToken),
                           getTokenDecimals(dir, req.fromChain, req.fromToken),
                           getTokenDecimals(dir, req.fromChain, req.toToken),
                           req))

\* a call on the SDK instance: it is issued for the chain the instance was built for
Call(fn, args) ==
    [fn |-> fn, chainId |-> simpleSDK.chainId, args |-> args, outcome |-> "pending", value |-> Null]

\* this.simpleSDK.quote.getQuote({...})
GetQuoteCall(l, req) ==
    Call("getQuote",
         [srcToken |-> l.fromTokenAddress, destToken |-> l.toTokenAddress, amount |-> l.fromTokenAmount,
          userAddress |-> req.fromAddress, srcDecimals |-> l.fromTokenDecimals,
          destDecimals |-> l.toTokenDecimals, side |-> "SELL", mode |-> l.mode])

\* this.simpleSDK.swap.getSpender()
GetSpenderCall == Call("getSpender", [none |-> TRUE])

\* this.simpleSDK.swap.buildTx({...}); slippage * 100, in basis points
BuildTxCall(l, req) ==
    Call("buildTx",
         [srcToken |-> l.fromTokenAddress, destToken |-> l.toTokenAddress, srcAmount |-> l.fromTokenAmount,
          slippage |-> l.slippage * 10, priceRoute |-> l.priceRoute, userAddress |-> req.fromAddress])

\* the last call of the log, settled with what it resolved to or rejected with
Settle(log, outcome, value) == [log EXCEPT ![Len(log)].outcome = outcome, ![Len(log)].value = value]

\* 'market' in quote ? quote.market : quote
PriceRouteOf(quote) == IF "market" \in DOMAIN quote THEN quote.market ELSE quote

\* a test that only looks for a missing route
UnusableRoute_NullOnly(priceRoute) == IsNull(priceRoute)

\* !priceRoute || !priceRoute.destAmount
UnusableRoute(priceRoute) ==
    \/ IsNull(priceRoute)
    \/ "destAmount" \notin DOMAIN priceRoute
    \/ priceRoute.destAmount = ""

\* a native-asset test that compares the address as written
IsNativeToken_CaseSensitive(address) == address = NATIVE_E \/ address = NATIVE_ZERO

\* the native-asset test of the approval step
IsNativeToken(address) ==
    \/ toLowerCase(address) = NATIVE_E
    \/ toLowerCase(address) = NATIVE_ZERO

\* encodeFunctionData({ abi: APPROVE_ABI, functionName, args })
encodeFunctionData(functionName, args) == [functionName |-> functionName, args |-> args]

\* an approval of the largest allowance, 2^256 - 1
ApproveTransaction_Unlimited(l, spender) ==
    [chainId |-> l.fromChainId,
     to      |-> l.fromTokenAddress,
     value   |-> "0",
     data    |-> encodeFunctionData("approve",
                    <<spender, <<"1","1","5","7","9","2","0","8","9","2","3","7","3","1","6","1","9","5","4","2","3","5","7","0","9","8","5","0","0","8","6","8","7","9","0","7","8","5","3","2","6","9","9","8","4","6","6","5","6","4","0","5","6","4","0","3","9","4","5","7","5","8","4","0","0","7","9","1","3","1","2","9","6","3","9","9","3","5">>>>)]

\* the approval transaction of step 3
ApproveTransaction(l, spender) ==
    [chainId |-> l.fromChainId,
     to      |-> l.fromTokenAddress,
     value   |-> "0",
     data    |-> encodeFunctionData("approve", <<spender, l.fromTokenAmount>>)]

\* !txParams || !txParams.to || !txParams.data
IncompleteTx(txParams) ==
    \/ IsNull(txParams)
    \/ "to" \notin DOMAIN txParams \/ txParams.to = <<>>
    \/ "data" \notin DOMAIN txParams \/ txParams.data.hex = ""

Truthy(rec, f) == f \in DOMAIN rec /\ rec[f] # <<>>

\* BigInt(s) throws a SyntaxError unless s is an integer literal (decimal here)
BigIntThrows(txParams) ==
    \/ Truthy(txParams, "gasPrice") /\ ~AllDigits(txParams.gasPrice)
    \/ Truthy(txParams, "gas") /\ ~AllDigits(txParams.gas)

SwapTransaction(l, txParams) ==
    [chainId |-> l.fromChainId,
     to      |-> txParams.to,
     data    |-> txParams.data,
     value   |-> IF "value" \in DOMAIN txParams /\ txParams.value # "" THEN txParams.value ELSE "0"]
    @@ (IF Truthy(txParams, "gasPrice") THEN [gasPrice |-> BigIntToString(txParams.gasPrice)] ELSE << >>)
    @@ (IF Truthy(txParams, "gas") THEN [gasLimit |-> BigIntToString(txParams.gas)] ELSE << >>)

\* a throw inside the try block: the catch block rethrows, the promise rejects
Throw(error) ==
    /\ pc' = "done"
    /\ result' = Rejected(error)

\* the end of a prologue p: the throw, or the getQuote call
Begin(p, req) ==
    IF Failed(p)
    THEN /\ Throw(p.error)
         /\ UNCHANGED <<locals, calls>>
    ELSE /\ locals' = p.ok
         /\ calls' = <<GetQuoteCall(p.ok, req)>>
         /\ pc' = "getQuote"
         /\ UNCHANGED result

\* buildSwapTransaction(request), up to its first await
buildSwapTransaction(req) ==
    /\ pc = "idle"
    /\ invocations < MaxInvocations
    /\ invocations' = invocations + 1
    /\ op' = "buildSwapTransaction"
    /\ request' = req
    /\ Begin(BuildPrologue(directory, req), req)
    /\ UNCHANGED <<directory, transactions>>

\* getQuote resolves inside buildSwapTransaction
BuildQuoteResolved(quote) ==
    /\ op = "buildSwapTransaction"
    /\ pc = "getQuote"
    /\ IF IsNull(quote)
       THEN /\ Throw(Error("Failed to get quote from VeloraDEX"))
            /\ calls' = Settle(calls, "resolved", [quote |-> quote])
            /\ UNCHANGED locals
       ELSE IF UnusableRoute(PriceRouteOf(quote))
       THEN /\ Throw(Error("Invalid market quote received from VeloraDEX"))
            /\ calls' = Settle(calls, "resolved", [quote |-> quote])
            /\ UNCHANGED locals
       ELSE /\ locals' = [locals EXCEPT !.priceRoute = PriceRouteOf(quote)]
            /\ calls' = Append(Settle(calls, "resolved", [quote |-> quote]), GetSpenderCall)
            /\ pc' = "getSpender"
            /\ UNCHANGED result
    /\ UNCHANGED <<directory, invocations, op, request, transactions>>

\* getSpender resolves: the approval is built, then buildTx is called
BuildSpenderResolved(spender) ==
    /\ op = "buildSwapTransaction"
    /\ pc = "getSpender"
    /\ locals' = [locals EXCEPT !.spender = spender]
    /\ transactions' = IF IsNativeToken(locals.fromTokenAddress)
                       THEN transactions
                       ELSE Append(transactions, ApproveTransaction(locals, spender))
    /\ calls' = Append(Settle(calls, "resolved", [spender |-> spender]), BuildTxCall(locals, request))
    /\ pc' = "buildTx"
    /\ UNCHANGED <<directory, invocations, op, request, result>>

\* a service that returns the response of getQuote as it came
BuildTxResolved_RawQuote(txParams) ==
    /\ op = "buildSwapTransaction"
    /\ pc = "buildTx"
    /\ calls' = Settle(calls, "resolved", [txParams |-> txParams])
    /\ IF IncompleteTx(txParams)
       THEN /\ Throw(Error("Failed to build swap transaction from VeloraDEX"))
            /\ UNCHANGED transactions
       ELSE IF BigIntThrows(txParams)
       THEN /\ Throw(Error("SyntaxError: Cannot convert to a BigInt"))
            /\ UNCHANGED transactions
       ELSE /\ transactions' = Append(transactions, SwapTransaction(locals, txParams))
            /\ pc' = "done"
            /\ result' = [status |-> "resolved", transactions |-> transactions', quote |-> calls[1].value.quote]
    /\ UNCHANGED <<directory, invocations, op, request, locals>>

\* a service that returns what it has built so far when buildTx gives nothing usable
BuildTxResolved_Partial(txParams) ==
    /\ op = "buildSwapTransaction"
    /\ pc = "buildTx"
    /\ calls' = Settle(calls, "resolved", [txParams |-> txParams])
    /\ pc' = "done"
    /\ transactions' = IF IncompleteTx(txParams) \/ BigIntThrows(txParams) THEN transactions
                       ELSE Append(transactions, SwapTransaction(locals, txParams))
    /\ result' = [status |-> "resolved", transactions |-> transactions', quote |-> locals.priceRoute]
    /\ UNCHANGED <<directory, invocations, op, request, locals>>

\* buildTx resolves: the swap transaction is appended and the result returned
BuildTxResolved(txParams) ==
    /\ op = "buildSwapTransaction"
    /\ pc = "buildTx"
    /\ calls' = Settle(calls, "resolved", [txParams |-> txParams])
    /\ IF IncompleteTx(txParams)
       THEN /\ Throw(Error("Failed to build swap transaction from VeloraDEX"))
            /\ UNCHANGED transactions
       ELSE IF BigIntThrows(txParams)
       THEN /\ Throw(Error("SyntaxError: Cannot convert to a BigInt"))
            /\ UNCHANGED transactions
       ELSE /\ transactions' = Append(transactions, SwapTransaction(locals, txParams))
            /\ pc' = "done"
            /\ result' = [status |-> "resolved", transactions |-> transactions', quote |-> locals.priceRoute]
    /\ UNCHANGED <<directory, invocations, op, request, locals>>

\* getSwapQuote(request), up to its await
getSwapQuote(req) ==
    /\ pc = "idle"
    /\ invocations < MaxInvocations
    /\ invocations' = invocations + 1
    /\ op' = "getSwapQuote"
    /\ request' = req
    /\ Begin(QuotePrologue(directory, req), req)
    /\ UNCHANGED <<directory, transactions>>

\* getQuote resolves inside getSwapQuote
QuoteResolved(quote) ==
    /\ op = "getSwapQuote"
    /\ pc = "getQuote"
    /\ calls' = Settle(calls, "resolved", [quote |-> quote])
    /\ IF IsNull(quote)
       THEN Throw(Error("Failed to get quote from VeloraDEX"))
       ELSE /\ pc' = "done"
            /\ result' = [status |-> "resolved", quote |-> quote]
    /\ UNCHANGED <<directory, invocations, op, request, locals, transactions>>

\* a service that issues the rejected call once more instead of giving up
CallRejected_Retry(error) ==
    /\ pc \in {"getQuote", "getSpender", "buildTx"}
    /\ calls' = Append(Settle(calls, "rejected", [error |-> error]), calls[Len(calls)])
    /\ UNCHANGED <<directory, invocations, op, pc, request, locals, transactions, result>>

\* the awaited collaborator call rejects (either method)
CallRejected(error) ==
    /\ pc \in {"getQuote", "getSpender", "buildTx"}
    /\ calls' = Settle(calls, "rejected", [error |-> error])
    /\ Throw(error)
    /\ UNCHANGED <<directory, invocations, op, request, locals, transactions>>

\* the caller has its answer; the service instance is free for the next request
Return ==
    /\ pc = "done"
    /\ pc' = "idle"
    /\ op' = "none"
    /\ request' = NoRequest
    /\ locals' = NoLocals
    /\ transactions' = <<>>
    /\ calls' = <<>>
    /\ result' = Pending
    /\ UNCHANGED <<directory, invocations>>

Next ==
    \/ \E req \in Requests : buildSwapTransaction(req)
    \/ \E quote \in QuoteResults : BuildQuoteResolved(quote)
    \/ \E spender \in SpenderResults : BuildSpenderResolved(spender)
    \/ \E txParams \in TxResults : BuildTxResolved(txParams)
    \/ \E req \in Requests : getSwapQuote(req)
    \/ \E quote \in QuoteResults : QuoteResolved(quote)
    \/ \E error \in CollaboratorErrors : CallRejected(error)
    \/ Return

Spec == Init /\ [][Next]_vars

TypeOK ==
    /\ pc \in {"idle", "getQuote", "getSpender", "buildTx", "done"}
    /\ op \in {"none", "buildSwapTransaction", "getSwapQuote"}
    /\ invocations \in 0..MaxInvocations

\* ------------------------------------------------------------------------
\* Properties
\* ------------------------------------------------------------------------

Built == op = "buildSwapTransaction" /\ pc = "done" /\ result.status = "resolved"

Quoted == op = "getSwapQuote" /\ pc = "done" /\ result.status = "resolved"

Failure == pc = "done" /\ result.status = "rejected"

IsApprovalTx(tx) == "functionName" \in DOMAIN tx.data /\ tx.data.functionName = "approve"

IsSwapTx(tx) == "hex" \in DOMAIN tx.data

\* the source-token address the registry resolves for the current request
SourceAddress == getTokenAddressForChain(directory, request.fromChain, request.fromToken).addr

\* C1: every successful buildSwapTransaction returns exactly one transaction,
\* the swap, when the resolved source-token address is, compared without
\* regard to case, one of the two native sentinels, and exactly two, the
\* approval then the swap, for every other source address.
C1_ApprovalIffNotNative ==
    Built =>
        IF toLowerCase(SourceAddress) \in
               { <<"0","x">> \o [i \in 1..40 |-> "e"], <<"0","x">> \o [i \in 1..40 |-> "0"] }
        THEN /\ Len(result.transactions) = 1
             /\ IsSwapTx(result.transactions[1])
        ELSE /\ Len(result.transactions) = 2
             /\ IsApprovalTx(result.transactions[1])
             /\ IsSwapTx(result.transactions[2])

\* C1 witness: a swap built for a source token whose address spells the
\* all-e sentinel in mixed case, returned without an approval
C1_Witness ==
    /\ Built
    /\ SourceAddress # toLowerCase(SourceAddress)
    /\ toLowerCase(SourceAddress) = NATIVE_E
    /\ Len(result.transactions) = 1

\* a swap built for an address one digit away from a sentinel carries an approval
C1_WitnessNearSentinel ==
    /\ Built
    /\ SourceAddress = <<"0","x">> \o [i \in 1..39 |-> "e"] \o <<"f">>
    /\ Len(result.transactions) = 2

\* what the validator says of the current request
CurrentValidation == validateSwapRequest(directory, request)

\* C2: whenever the validator reports the request invalid, buildSwapTransaction
\* and getSwapQuote fail with the InvalidRequest error whose message is every
\* validator message joined, and no collaborator call is made in the invocation.
C2_InvalidRequestFailsBeforeAnyCall ==
    (op # "none" /\ ~CurrentValidation.isValid) =>
        /\ Failure
        /\ result.error = Error("Invalid request: " \o Join(CurrentValidation.errors))
        /\ calls = <<>>

\* C2 witness: an invocation rejected for a request with several validator messages
C2_Witness ==
    /\ op = "buildSwapTransaction"
    /\ Len(CurrentValidation.errors) >= 3
    /\ Failure
    /\ calls = <<>>

\* the message of one check, when the check fails
MessageIf(failed, msg) == IF failed THEN <<msg>> ELSE <<>>

Unresolvable(token) == Failed(getTokenAddressForChain(directory, request.fromChain, token))

ChainRecognized == request.fromChain # <<>> /\ toUpperCase(request.fromChain) \in DOMAIN SUPPORTED_CHAINS

\* the five field checks, in order
FieldMessages ==
    MessageIf(NumberClass(request.amount) # "pos" \/ request.amount = <<>>,
              "Invalid amount: must be a positive number")
    \o MessageIf(trim(request.fromToken) = <<>>, "From token is required")
    \o MessageIf(trim(request.toToken) = <<>>, "To token is required")
    \o MessageIf(~isValidAddress(request.fromAddress), "Invalid from address format")
    \o MessageIf(~ChainRecognized, "Unsupported chain: " \o Str(request.fromChain))

TokenMessage(token) == "Token " \o Str(token) \o " not supported on " \o Str(request.fromChain)

C3_WitnessBlankToken ==
    /\ op # "none"
    /\ request.fromToken = <<" ">>
    /\ ChainRecognized
    /\ Len(CurrentValidation.errors) = 2

\* the names of the calls made so far in the invocation
CallNames == [i \in 1..Len(calls) |-> calls[i].fn]

IsPrefix(s, t) == Len(s) <= Len(t) /\ \A i \in 1..Len(s) : s[i] = t[i]

\* C4: within one buildSwapTransaction invocation the collaborator calls occur
\* only in the order getQuote, getSpender, buildTx, each at most once; when one
\* of them fails the invocation has ended in an error, the failed call is the
\* last call of the invocation (no retry, no later call).
C4_CallOrderNoRetry ==
    op = "buildSwapTransaction" =>
        /\ IsPrefix(CallNames, <<"getQuote", "getSpender", "buildTx">>)
        /\ \A i \in 1..Len(calls) :
               /\ calls[i].outcome = "pending" => (i = Len(calls) /\ pc = calls[i].fn)
               /\ calls[i].outcome = "rejected" => (i = Len(calls) /\ Failure)
        /\ pc \in {"getQuote", "getSpender", "buildTx"} =>
               (calls # <<>> /\ calls[Len(calls)].outcome = "pending")

\* C4 witness: buildTx was called third and rejected; the invocation failed
C4_Witness ==
    /\ op = "buildSwapTransaction"
    /\ CallNames = <<"getQuote", "getSpender", "buildTx">>
    /\ calls[3].outcome = "rejected"
    /\ Failure

\* what getQuote resolved to in the current invocation
QuoteReturned == calls # <<>> /\ calls[1].outcome = "resolved"

ReturnedQuote == calls[1].value.quote

\* a field that is present and not the empty string
HasText(rec, f) == ~IsNull(rec) /\ f \in DOMAIN rec /\ rec[f] # ""

\* the quote carries a non-empty destination amount, directly or in the
\* price route it holds under "market"
CarriesDestAmount(quote) ==
    /\ ~IsNull(quote)
    /\ IF "market" \in DOMAIN quote THEN HasText(quote.market, "destAmount") ELSE HasText(quote, "destAmount")

QuoteUnavailable ==
    /\ Failure
    /\ result.error.message \in {"Failed to get quote from VeloraDEX", "Invalid market quote received from VeloraDEX"}

\* C5: if getQuote returns no result, or a result that carries no non-empty
\* destination amount, buildSwapTransaction fails with a QuoteUnavailable
\* error; getSpender and buildTx are not called and no transaction is returned.
C5_QuoteUnavailable ==
    (op = "buildSwapTransaction" /\ QuoteReturned /\ ~CarriesDestAmount(ReturnedQuote)) =>
        /\ QuoteUnavailable
        /\ CallNames = <<"getQuote">>
        /\ "transactions" \notin DOMAIN result

\* C5 witness: getQuote returned a route without a destination amount
C5_Witness ==
    /\ op = "buildSwapTransaction"
    /\ QuoteReturned
    /\ ~IsNull(ReturnedQuote)
    /\ "market" \notin DOMAIN ReturnedQuote
    /\ "destAmount" \notin DOMAIN ReturnedQuote
    /\ QuoteUnavailable

\* what buildTx resolved to in the current invocation
TxReturned == Len(calls) = 3 /\ calls[3].outcome = "resolved"

ReturnedTx == calls[3].value.txParams

\* the result lacks a destination address or calldata
LacksToOrData(txParams) ==
    \/ IsNull(txParams)
    \/ "to" \notin DOMAIN txParams
    \/ "data" \notin DOMAIN txParams
    \/ txParams.to = <<>>
    \/ txParams.data.hex = ""

\* C6: if buildTx returns no result, or a result lacking a destination address
\* or calldata, buildSwapTransaction fails with the BuildTxFailed error; the
\* caller never receives a partial list: only a successful result carries
\* transactions, it ends with the swap transaction buildTx described, and every
\* approval in it is followed by the swap transaction.
C6_NoPartialList ==
    /\ (op = "buildSwapTransaction" /\ TxReturned /\ LacksToOrData(ReturnedTx)) =>
           /\ Failure
           /\ result.error.message = "Failed to build swap transaction from VeloraDEX"
    /\ "transactions" \in DOMAIN result =>
           /\ Built
           /\ TxReturned
           /\ result.transactions # <<>>
           /\ IsSwapTx(result.transactions[Len(result.transactions)])
           /\ result.transactions[Len(result.transactions)].to = ReturnedTx.to
           /\ result.transactions[Len(result.transactions)].data = ReturnedTx.data
           /\ \A i \in 1..Len(result.transactions) :
                  IsApprovalTx(result.transactions[i]) =>
                      (i < Len(result.transactions) /\ IsSwapTx(result.transactions[i + 1]))

\* C6 witness: the approval was built, buildTx then returned a result without
\* calldata, and the invocation failed with nothing returned
C6_Witness ==
    /\ op = "buildSwapTransaction"
    /\ TxReturned
    /\ ~IsNull(ReturnedTx)
    /\ "data" \notin DOMAIN ReturnedTx
    /\ Len(transactions) = 1
    /\ IsApprovalTx(transactions[1])
    /\ Failure
    /\ "transactions" \notin DOMAIN result

\* the chain id the registry resolves for the current request
SourceChainId == getChainIdForNetwork(directory, request.fromChain).id

\* the base-unit amount of the current request
SourceAmount == getTokenAmount(directory, request.amount, request.fromChain, request.fromToken).amount

\* C7: whenever an approval transaction is produced, its chain id is the chain
\* id resolved from fromChain, its destination the resolved source-token
\* address, its value "0", and its calldata approve(spender, amount) with the
\* spender getSpender returned in this invocation and the amount exactly the
\* base-unit source amount sent to getQuote and sent to buildTx.
C7_ApprovalContent ==
    \A i \in 1..Len(transactions) :
        IsApprovalTx(transactions[i]) =>
            /\ i = 1
            /\ Len(calls) = 3
            /\ transactions[i].chainId = SourceChainId
            /\ transactions[i].to = SourceAddress
            /\ transactions[i].value = "0"
            /\ transactions[i].data.args = <<calls[2].value.spender, SourceAmount>>
            /\ calls[1].args.amount = SourceAmount
            /\ calls[3].args.srcAmount = SourceAmount
            /\ Built => result.transactions[1] = transactions[1]

\* C7 witness: a result whose first transaction is the approval
C7_Witness ==
    /\ Built
    /\ Len(result.transactions) = 2
    /\ IsApprovalTx(result.transactions[1])
    /\ SourceAmount = <<"1","0","0","0","0","0","0">>

\* C8 as stated: in every successful buildSwapTransaction invocation the
\* priceRoute argument given to buildTx and the quote field of the result are
\* both the very value getQuote returned.
C8_Original ==
    Built =>
        /\ calls[3].args.priceRoute = ReturnedQuote
        /\ result.quote = ReturnedQuote

\* C8 (amended): in every successful buildSwapTransaction invocation the
\* priceRoute argument given to buildTx and the quote field of the result are
\* both, unmodified, the price route of the value getQuote returned: that value
\* itself when it has no "market" member, and the value of its "market" member
\* when it has one.
C8_PriceRoutePassedThrough ==
    Built =>
        /\ calls[3].args.priceRoute =
               (IF "market" \in DOMAIN ReturnedQuote THEN ReturnedQuote.market ELSE ReturnedQuote)
        /\ result.quote =
               (IF "market" \in DOMAIN ReturnedQuote THEN ReturnedQuote.market ELSE ReturnedQuote)

\* C8 witness: getQuote returned its route under "market"; the result's quote is that route
C8_Witness ==
    /\ Built
    /\ "market" \in DOMAIN ReturnedQuote
    /\ result.quote = ReturnedQuote.market
    /\ calls[3].args.priceRoute = ReturnedQuote.market

\* a quote that is itself the route is returned as it came
C8_WitnessFlat ==
    /\ Built
    /\ "market" \notin DOMAIN ReturnedQuote
    /\ result.quote = ReturnedQuote

\* a collaborator call of the current invocation rejected
CallFailed == calls # <<>> /\ calls[Len(calls)].outcome = "rejected"

CallError == calls[Len(calls)].value.error

\* the error is a transport error that carries a response
HasResponse(e) == "isAxiosError" \in DOMAIN e /\ e.isAxiosError /\ "response" \in DOMAIN e

\* what the synchronous part of the current invocation threw, if it threw
PrologueError ==
    IF op = "buildSwapTransaction" THEN BuildPrologue(directory, request) ELSE QuotePrologue(directory, request)

\* C9 as stated: a transport error with a response payload surfaces with the
\* payload's message field, or else its error field, as its message; every
\* other error propagates unchanged.
C9_Original ==
    /\ (CallFailed /\ HasResponse(CallError) /\ ~IsNull(CallError.response.data)) =>
           /\ Failure
           /\ \/ HasText(CallError.response.data, "message")
                    /\ result.error.message = CallError.response.data.message
              \/ ~HasText(CallError.response.data, "message")
                    /\ HasText(CallError.response.data, "error")
                    /\ result.error.message = CallError.response.data.error
    /\ (CallFailed /\ ~(HasResponse(CallError) /\ ~IsNull(CallError.response.data))) =>
           (Failure /\ result.error = CallError)

\* C9 (amended): when a collaborator call inside buildSwapTransaction or
\* getSwapQuote raises a transport error that carries a response, the error
\* surfaced has as its message the response payload's non-empty message field,
\* or else its non-empty error field, or else, when the payload has neither or
\* is absent, the fixed text "VeloraDEX API request failed"; every other error
\* (validator, registry, amount, collaborator error without a response)
\* propagates unchanged.
C9_ApiErrorUnwrapped ==
    /\ (CallFailed /\ HasResponse(CallError)) =>
           /\ Failure
           /\ DOMAIN result.error = {"message"}
           /\ result.error.message =
                  IF HasText(CallError.response.data, "message") THEN CallError.response.data.message
                  ELSE IF HasText(CallError.response.data, "error") THEN CallError.response.data.error
                  ELSE "VeloraDEX API request failed"
    /\ (CallFailed /\ ~HasResponse(CallError)) => (Failure /\ result.error = CallError)
    /\ (Failure /\ calls = <<>>) => result.error = PrologueError.error

\* C9 witness: getQuote rejected with a transport error whose payload has a
\* message; the surfaced message is the payload's, not the transport's
C9_Witness ==
    /\ CallFailed
    /\ HasResponse(CallError)
    /\ HasText(CallError.response.data, "message")
    /\ Failure
    /\ result.error.message = CallError.response.data.message
    /\ result.error.message # CallError.message

\* the validator's chain message for the current request
ChainMessage == "Unsupported chain: " \o Str(request.fromChain)

ChainRejected == ChainMessage \in SeqToSet(CurrentValidation.errors)

\* resolveChainId fails for the current request's chain
ChainUnresolvable == Failed(getChainIdForNetwork(directory, request.fromChain))

\* C10 as stated: validate adds "Unsupported chain: <name>" exactly when
\* resolveChainId(name) fails, so every chain the registry can resolve passes
\* the validator's chain check.
C10_Original == op # "none" => (ChainRejected <=> ChainUnresolvable)

\* C10 (amended): the validator's chain check is the local chain table alone:
\* validate adds "Unsupported chain: <name>" exactly when the name is empty or
\* its upper-case form is not a key of the local chain table, whatever the
\* external directory recognizes. Every chain that passes the check is one
\* resolveChainId resolves (and a name resolveChainId fails on is rejected),
\* but not conversely.
C10_ValidatorUsesLocalTable ==
    op # "none" =>
        /\ ChainRejected <=>
               (request.fromChain = <<>> \/ toUpperCase(request.fromChain) \notin DOMAIN SUPPORTED_CHAINS)
        /\ ChainUnresolvable => ChainRejected

\* C10 witness: a chain only the directory knows: the registry resolves it,
\* the validator rejects it
C10_Witness ==
    /\ op # "none"
    /\ request.fromChain # <<>>
    /\ ~ChainUnresolvable
    /\ ChainRejected

\* a lower-case name of the local table passes with an empty directory
C10_WitnessLocalOnly ==
    /\ op # "none"
    /\ directory = DirectoryEmpty
    /\ request.fromChain = toLowerCase(request.fromChain)
    /\ request.fromChain # <<>>
    /\ ~ChainRejected
    /\ ~ChainUnresolvable

\* the names the registry looks the current request's chain and a token up by
SourceName == normalizedChainName(request.fromChain)

\* the directory has a non-empty address for the token on the source chain
DirectoryYields(token) ==
    /\ SourceName \in DOMAIN directory.chains
    /\ <<SourceName, toUpperCase(token)>> \in DOMAIN directory.tokens
    /\ directory.tokens[<<SourceName, toUpperCase(token)>>].addr # <<>>

\* the local fallback table has an entry for the token on the source chain
LocalYields(token) ==
    /\ SourceName \in DOMAIN FALLBACK_TOKEN_ADDRESSES
    /\ toUpperCase(token) \in DOMAIN FALLBACK_TOKEN_ADDRESSES[SourceName]

ResolvedAddress(token) == getTokenAddressForChain(directory, request.fromChain, token)

RequestTokens == {request.fromToken, request.toToken}

\* C11: resolveTokenAddress returns the directory's address whenever the
\* directory yields a non-empty one; when the directory returns nothing or
\* raises, it returns the local fallback entry for (normalized chain,
\* upper-case symbol); it fails, with the unsupported-token error, exactly
\* when neither source yields an address.
C11_TokenAddressPrecedence ==
    op # "none" =>
        \A token \in RequestTokens :
            /\ DirectoryYields(token) =>
                   ResolvedAddress(token) = directory.tokens[<<SourceName, toUpperCase(token)>>]
            /\ ~DirectoryYields(token) /\ LocalYields(token) =>
                   ResolvedAddress(token) =
                       [addr |-> FALLBACK_TOKEN_ADDRESSES[SourceName][toUpperCase(token)]]
            /\ Failed(ResolvedAddress(token)) <=> ~DirectoryYields(token) /\ ~LocalYields(token)
            /\ Failed(ResolvedAddress(token)) =>
                   ResolvedAddress(token).error.message =
                       "Token " \o Str(token) \o " not found on chain " \o Str(request.fromChain)

\* C11 witness: both sources have an address for the source token, they
\* differ, and the directory's is the one resolved
C11_Witness ==
    /\ op # "none"
    /\ DirectoryYields(request.fromToken)
    /\ LocalYields(request.fromToken)
    /\ directory.tokens[<<SourceName, toUpperCase(request.fromToken)>>].addr
           # FALLBACK_TOKEN_ADDRESSES[SourceName][toUpperCase(request.fromToken)]
    /\ ResolvedAddress(request.fromToken) = directory.tokens[<<SourceName, toUpperCase(request.fromToken)>>]

\* the directory answers with the empty string and the local entry is used
C11_WitnessEmptyAnswer ==
    /\ op # "none"
    /\ <<SourceName, toUpperCase(request.fromToken)>> \in DOMAIN directory.tokens
    /\ ~DirectoryYields(request.fromToken)
    /\ ~Failed(ResolvedAddress(request.fromToken))

\* the directory raises and the local entry is used
C11_WitnessRaise ==
    /\ op # "none"
    /\ SourceName \notin DOMAIN directory.chains
    /\ ~Failed(ResolvedAddress(request.fromToken))

\* neither source yields an address
C11_WitnessUnsupported ==
    /\ op # "none"
    /\ request.fromToken # <<>>
    /\ Failed(ResolvedAddress(request.fromToken))

\* the directory has a decimals entry for the token on the source chain
DirectoryHasDecimals(token) ==
    /\ SourceName \in DOMAIN directory.chains
    /\ <<SourceName, toUpperCase(token)>> \in DOMAIN directory.decimals

\* the local fallback table has a decimals entry for it
LocalHasDecimals(token) ==
    /\ SourceName \in DOMAIN FALLBACK_TOKEN_DECIMALS
    /\ toUpperCase(token) \in DOMAIN FALLBACK_TOKEN_DECIMALS[SourceName]

ResolvedDecimals(token) == getTokenDecimalsForChain(directory, request.fromChain, token)

\* the default policy for a symbol neither source knows
DefaultDecimals(token) ==
    IF toUpperCase(token) \in {<<"U","S","D","C">>, <<"U","S","D","T">>} THEN 6 ELSE 18

\* C12: resolveTokenDecimals never fails: whatever the directory returns or
\* raises, it returns the directory's value if present, else the local
\* fallback-table value if present, else 6 when the upper-cased symbol is
\* USDC or USDT and 18 for every other symbol.
C12_DecimalsNeverFail ==
    op # "none" =>
        \A token \in RequestTokens :
            /\ ResolvedDecimals(token) \in Nat
            /\ ResolvedDecimals(token) =
                   IF DirectoryHasDecimals(token)
                   THEN directory.decimals[<<SourceName, toUpperCase(token)>>].dec
                   ELSE IF LocalHasDecimals(token)
                   THEN FALLBACK_TOKEN_DECIMALS[SourceName][toUpperCase(token)]
                   ELSE DefaultDecimals(token)

\* C12 witness: the directory raises, the local table has no entry for the
\* chain, and a lower-case usdc gets the default of 6
C12_Witness ==
    /\ op # "none"
    /\ SourceName \notin DOMAIN directory.chains
    /\ ~LocalHasDecimals(request.fromToken)
    /\ request.fromToken = <<"u","s","d","c">>
    /\ ResolvedDecimals(request.fromToken) = 6

\* both sources have an entry, they differ, and the directory's is returned
C12_WitnessDirectoryFirst ==
    /\ op # "none"
    /\ DirectoryHasDecimals(request.toToken)
    /\ LocalHasDecimals(request.toToken)
    /\ ResolvedDecimals(request.toToken) # FALLBACK_TOKEN_DECIMALS[SourceName][toUpperCase(request.toToken)]

\* only the local table has an entry
C12_WitnessLocal ==
    /\ op # "none"
    /\ ~DirectoryHasDecimals(request.fromToken)
    /\ LocalHasDecimals(request.fromToken)
    /\ ResolvedDecimals(request.fromToken) = FALLBACK_TOKEN_DECIMALS[SourceName][toUpperCase(request.fromToken)]

\* an unknown symbol gets 18
C12_WitnessOther ==
    /\ op # "none"
    /\ ~DirectoryHasDecimals(request.fromToken)
    /\ ~LocalHasDecimals(request.fromToken)
    /\ request.fromToken = <<"X","Y","Z">>
    /\ ResolvedDecimals(request.fromToken) = 18

\* a spelling with upper and lower case alternating
Alternate(s) == [i \in 1..Len(s) |-> IF i % 2 = 1 THEN UpperChar(s[i]) ELSE LowerChar(s[i])]

\* spellings of a name that differ only in letter case
Spellings(s) == {s, toUpperCase(s), toLowerCase(s), Alternate(s)}

\* the same value, or failure in both cases
SameOutcome(a, b) == IF Failed(a) \/ Failed(b) THEN Failed(a) /\ Failed(b) ELSE a = b

\* an invocation has begun and nothing has come back yet
JustInvoked == op # "none" /\ \A i \in 1..Len(calls) : calls[i].outcome = "pending"

\* the current request with another chain name
Respelled(chain) == [request EXCEPT !.fromChain = chain]

\* C13: every registry lookup is case-insensitive: for chain names that
\* differ only in letter case and symbols that differ only in letter case,
\* resolveChainId, resolveTokenAddress and resolveTokenDecimals, and the
\* validator's chain and token checks, give the same outcome (the same
\* value, or failure in both cases). Every spelling is compared with the
\* upper-case one, so any two spellings agree with each other. The lookups
\* depend on the directory and the request only, and are compared as the
\* invocation begins.
C13_LookupsCaseInsensitive ==
    JustInvoked =>
        \A chain \in Spellings(request.fromChain) :
            /\ SameOutcome(getChainIdForNetwork(directory, chain),
                           getChainIdForNetwork(directory, toUpperCase(chain)))
            /\ (fromChainErrors(Respelled(chain)) = <<>>)
                   <=> (fromChainErrors(Respelled(toUpperCase(chain))) = <<>>)
            /\ \A token \in RequestTokens :
                   \A symbol \in Spellings(token) :
                       /\ SameOutcome(getTokenAddressForChain(directory, chain, symbol),
                                      getTokenAddressForChain(directory, toUpperCase(chain), toUpperCase(symbol)))
                       /\ getTokenDecimalsForChain(directory, chain, symbol)
                              = getTokenDecimalsForChain(directory, toUpperCase(chain), toUpperCase(symbol))
                       /\ (tokenSupportErrors(directory, Respelled(chain), symbol) = <<>>)
                              <=> (tokenSupportErrors(directory, Respelled(toUpperCase(chain)),
                                                      toUpperCase(symbol)) = <<>>)

\* C13 witness: a lower-case chain name and a lower-case symbol, both with
\* other spellings, resolve as their upper-case spellings do
C13_Witness ==
    /\ JustInvoked
    /\ request.fromChain # toUpperCase(request.fromChain)
    /\ request.fromToken # toUpperCase(request.fromToken)
    /\ Alternate(request.fromChain) \notin {request.fromChain, toUpperCase(request.fromChain)}
    /\ ~Failed(getChainIdForNetwork(directory, request.fromChain))
    /\ ~Failed(ResolvedAddress(request.fromToken))
    /\ ResolvedAddress(request.fromToken)
           = getTokenAddressForChain(directory, toUpperCase(request.fromChain), toUpperCase(request.fromToken))

\* a chain only the directory knows, written in lower case: its upper-case
\* spelling resolves to the same id
C13_WitnessDirectoryOnly ==
    /\ op # "none"
    /\ request.fromChain # toUpperCase(request.fromChain)
    /\ toUpperCase(request.fromChain) \notin DOMAIN SUPPORTED_CHAINS
    /\ ~Failed(getChainIdForNetwork(directory, toUpperCase(request.fromChain)))

\* failure in both cases
C13_WitnessFailure ==
    /\ op # "none"
    /\ request.fromChain # <<>>
    /\ Failed(getChainIdForNetwork(directory, request.fromChain))
    /\ Failed(getChainIdForNetwork(directory, toLowerCase(request.fromChain)))
    /\ request.fromChain # toLowerCase(request.fromChain)

\* the decimal counts the conversion is read back at
DecimalCounts == {0, 1, 6, 18}

Unsigned(a) == IF a # <<>> /\ a[1] = "-" THEN Tail(a) ELSE a

\* a number in decimal notation: an optional minus sign, digits, at most one
\* point, at least one digit
IsDecimalString(a) == IsMantissa(Unsigned(a))

IntegerPart(a) == Before(Unsigned(a), FirstIndex(Unsigned(a), {"."}))

FractionPart(a) == After(Unsigned(a), FirstIndex(Unsigned(a), {"."}), <<>>)

\* a has no more than d significant fraction digits
Exact(a, d) == Len(StripTrailingZeros(FractionPart(a))) <= d

\* the integer string of a * 10^d, cut off below one base unit
Floor(a, d) ==
    BigIntToString(IntegerPart(a)
                   \o (IF Len(FractionPart(a)) > d THEN SubSeq(FractionPart(a), 1, d)
                       ELSE padEnd(FractionPart(a), d)))

Magnitude(r) == IF r[1] = "-" THEN Tail(r) ELSE r

\* the decimal value of an amount string: integer digits without leading
\* zeros, fraction digits without trailing zeros
Canon(a) == [int |-> BigIntToString(IntegerPart(a)), frac |-> StripTrailingZeros(FractionPart(a))]

\* a base-unit string r read back at d decimals
ReadBackPadded(padded, d) ==
    [int  |-> SubSeq(padded, 1, Len(padded) - d),
     frac |-> StripTrailingZeros(SubSeq(padded, Len(padded) - d + 1, Len(padded)))]

ReadBack(r, d) == ReadBackPadded(padStart(Magnitude(r), d + 1), d)

\* what converting a at d decimals must give: the integer string of
\* a * 10^d when a has no more than d fraction digits (reading it back gives
\* a), else that integer or the next one (a is recovered within one unit of
\* the d-th decimal); negative exactly when a is and the result is not zero
ConvertsTo(a, d, r) ==
    /\ Magnitude(r) \in {Floor(a, d)} \cup (IF Exact(a, d) THEN {} ELSE {BigIntToString(Increment(Floor(a, d)))})
    /\ Exact(a, d) => ReadBack(r, d) = Canon(a)
    /\ (r[1] = "-") <=> (a[1] = "-" /\ Magnitude(r) # <<"0">>)

\* the failure of the conversion
AmountParseError == Error("Failed to parse token amount: " \o Str(request.amount))

\* C14: for every amount string a in decimal notation and every decimal
\* count d, converting a to base units gives the integer string for
\* a * 10^d ("1" at 6 decimals gives "1000000"), so that reading the result
\* back at d decimals recovers a within the precision of d; an amount that
\* is not such a numeric string never produces a base-unit amount: the
\* invocation is rejected by the validator or fails with the amount parse
\* error, and no collaborator call is made with it.
C14_AmountConversion ==
    op # "none" =>
        /\ parseUnits(<<"1">>, 6) = [units |-> <<"1","0","0","0","0","0","0">>]
        /\ IsDecimalString(request.amount) =>
               /\ \A d \in DecimalCounts :
                      /\ ~Raised(parseUnits(request.amount, d))
                      /\ ConvertsTo(request.amount, d, parseUnits(request.amount, d).units)
               /\ ~Failed(getTokenAmount(directory, request.amount, request.fromChain, request.fromToken))
               /\ ConvertsTo(request.amount, ResolvedDecimals(request.fromToken), SourceAmount)
        /\ ~IsDecimalString(request.amount) =>
               /\ calls = <<>>
               /\ Failure
               /\ result.error =
                      IF CurrentValidation.isValid THEN AmountParseError
                      ELSE Error("Invalid request: " \o Join(CurrentValidation.errors))
        /\ calls # <<>> =>
               /\ IsDecimalString(request.amount)
               /\ calls[1].args.amount = SourceAmount

\* C14 witness: "1" of a 6-decimals token reaches getQuote as "1000000"
C14_Witness ==
    /\ op # "none"
    /\ request.amount = <<"1">>
    /\ ResolvedDecimals(request.fromToken) = 6
    /\ calls # <<>>
    /\ calls[1].args.amount = <<"1","0","0","0","0","0","0">>

\* an amount with more digits than the token has, rounded up with a carry
C14_WitnessRounded ==
    /\ op # "none"
    /\ request.amount = <<"0",".","9","9","9","9","9","9","5">>
    /\ ResolvedDecimals(request.fromToken) = 6
    /\ calls # <<>>
    /\ calls[1].args.amount = <<"1","0","0","0","0","0","0">>

\* an amount the validator takes for a positive number and the conversion
\* refuses
C14_WitnessParseError ==
    /\ op # "none"
    /\ ~IsDecimalString(request.amount)
    /\ CurrentValidation.isValid
    /\ Failure
    /\ result.error = AmountParseError
    /\ calls = <<>>

\* steps 1-4 of buildSwapTransaction fail for the current request and the
\* answer getQuote gave: the request is invalid, an identifier does not
\* resolve, the amount does not parse, the call fails, no quote comes back,
\* or the quote lacks a destination amount
StepsOneToFourFail ==
    \/ Failed(BuildPrologue(directory, request))
    \/ CallFailed
    \/ QuoteReturned /\ ~CarriesDestAmount(ReturnedQuote)

\* getQuote at most once, getSpender and buildTx never
OnlyOneQuoteCall == Len(calls) <= 1 /\ \A i \in 1..Len(calls) : calls[i].fn = "getQuote"

\* C15 as stated: getSwapQuote is exactly steps 1-4 of buildSwapTransaction:
\* for the same request and the same getQuote response it fails in exactly
\* the cases in which buildSwapTransaction fails at steps 1-4 (invalid
\* request, unresolved identifier, amount parse error, absent quote, quote
\* lacking a destination amount), otherwise it returns the raw quote; it
\* calls getQuote at most once and never calls getSpender or buildTx.
C15_Original ==
    op = "getSwapQuote" =>
        /\ OnlyOneQuoteCall
        /\ pc = "done" =>
               /\ Failure <=> StepsOneToFourFail
               /\ ~Failure => result.quote = ReturnedQuote

\* getSwapQuote returned a quote that has no destination amount
C15_ReturnsUnusableQuote ==
    /\ Quoted
    /\ QuoteReturned
    /\ ~CarriesDestAmount(ReturnedQuote)
    /\ result.quote = ReturnedQuote

\* C15 (what getSwapQuote does): it fails when the request is invalid, the amount
\* does not parse, the call fails or no quote comes back; any other answer
\* of getQuote is returned as it is
C15_QuoteFailsOnlyWithoutResult ==
    op = "getSwapQuote" =>
        /\ OnlyOneQuoteCall
        /\ pc = "done" =>
               /\ Failure <=>
                      \/ Failed(BuildPrologue(directory, request))
                      \/ CallFailed
                      \/ QuoteReturned /\ IsNull(ReturnedQuote)
               /\ ~Failure => result.quote = ReturnedQuote

\* every call of the invocation so far was issued for chain id
IssuedFor(id) == \A i \in 1..Len(calls) : calls[i].chainId = id

\* every transaction of the result is stamped with chain id
StampedWith(id) == \A i \in 1..Len(result.transactions) : result.transactions[i].chainId = id

\* C16 as stated: the collaborator is queried for the chain the request
\* names: in every buildSwapTransaction and getSwapQuote invocation the chain
\* identifier under which getQuote, getSpender and buildTx are issued equals
\* the chain id resolved from fromChain, which is also the chainId stamped on
\* every transaction of the result.
C16_Original ==
    (op # "none" /\ calls # <<>>) =>
        /\ IssuedFor(SourceChainId)
        /\ Built => StampedWith(SourceChainId)

\* a swap built for a chain other than the one its quote, spender and
\* calldata were asked for
C16_BuiltForAnotherChain ==
    /\ Built
    /\ Len(calls) = 3
    /\ StampedWith(SourceChainId)
    /\ ~IssuedFor(SourceChainId)
    /\ IssuedFor(simpleSDK.chainId)

\* C16 (what the service does): every call is issued for the chain the SDK
\* instance was constructed for, whatever chain the request names, and the
\* transactions are stamped with the chain id resolved from fromChain
C16_CallsUseConstructorChain ==
    (op # "none" /\ calls # <<>>) =>
        /\ IssuedFor(simpleSDK.chainId)
        /\ Built => StampedWith(SourceChainId)

\* a base-unit string that is a strictly positive integer
StrictlyPositive(units) ==
    /\ units # <<>>
    /\ \A i \in 1..Len(units) : units[i] \in DigitSet
    /\ \E i \in 1..Len(units) : units[i] # "0"

\* the base-unit amount a call carries (getSpender carries none)
CallAmounts ==
    { calls[i].args.amount : i \in {j \in 1..Len(calls) : calls[j].fn = "getQuote"} }
    \cup { calls[i].args.srcAmount : i \in {j \in 1..Len(calls) : calls[j].fn = "buildTx"} }

\* the amount an approval transaction encodes
ApprovalAmounts ==
    { transactions[i].data.args[2] : i \in {j \in 1..Len(transactions) : IsApprovalTx(transactions[j])} }

\* C17 as stated: for every request that passes validation and whose amount
\* converts successfully, the base-unit source amount sent to getQuote,
\* encoded in the approval and sent to buildTx is a strictly positive
\* integer: a positive amount smaller than one base unit at the source
\* token's precision never results in a zero-amount quote, approval or swap.
C17_Original ==
    op # "none" => \A units \in CallAmounts \cup ApprovalAmounts : StrictlyPositive(units)

\* a swap of zero base units built, with its approval of zero, for a request
\* the validator passed
C17_ZeroAmountSwap ==
    /\ Built
    /\ CurrentValidation.isValid
    /\ NumberClass(request.amount) = "pos"
    /\ Len(calls) = 3
    /\ CallAmounts = {<<"0">>}
    /\ ApprovalAmounts = {<<"0">>}

\* C17 (what the service does): the amount sent and encoded is the converted
\* amount of the request, a non-negative integer, which is zero when the
\* request's amount rounds to zero at the source token's precision
C17_AmountIsConvertedAmount ==
    op # "none" =>
        \A units \in CallAmounts \cup ApprovalAmounts :
            /\ units = SourceAmount
            /\ \A i \in 1..Len(units) : units[i] \in DigitSet

====
